---- MODULE Spec2Model ----
(***************************************************************************)
(* Four-bar linkage core of Grashof Explorer: the position solver          *)
(* calculateJoints and the classifier determineGrashof (src/types.ts,      *)
(* duplicated in src/index.tsx), and the App component that drives them    *)
(* from its sliders, play button and animation loop (src/index.tsx).       *)
(*                                                                         *)
(* Spec applies the two functions to bounded inputs; SpecPanel applies     *)
(* the classifier and the InfoPanel component to integer lengths; SpecApp  *)
(* is the App: one action per event handler and one per animation frame,   *)
(* each with the render that follows it.                                   *)
(*                                                                         *)
(* Numbers.  A JavaScript number is modelled in fixed point.               *)
(*   - A link length is an integer count of ticks, 400 ticks to one        *)
(*     length unit (so the classifier's 0.01 tolerance is 4 ticks).  The   *)
(*     solver is homogeneous in the lengths, so the tick size only         *)
(*     matters to the classifier's tolerance.                              *)
(*   - A coordinate, a distance or a cosine is an integer count of         *)
(*     1/Scale ticks; products are rescaled with rounding (RDiv).          *)
(*   - An angle is carried as its direction [c, s] = Scale*(cos, sin).     *)
(*     Math.cos/Math.sin of the input angle read a table of degrees        *)
(*     kept to six decimals;                                               *)
(*     Math.acos, Math.atan2 and the subtraction of two angles act on      *)
(*     directions, which is what they compute up to rounding.              *)
(*   - NaN is a value of its own, outside the range of every coordinate.   *)
(*   - Floating-point drift is below the fixed-point resolution except     *)
(*     where it crosses the domain of Math.acos: drift = 1 lets a          *)
(*     law-of-cosines quotient that is exactly +1 or -1 land one step      *)
(*     outside [-1, 1], as a double quotient may by one ulp.               *)
(***************************************************************************)
EXTENDS Integers, Sequences, FiniteSets, TLC

\* Largest link length of the explored link sets, in ticks.
MaxLen == 6

\* const threshold = 0.01, in ticks: a tick is 1/400 of a length unit.
threshold == 4

\* Fixed-point denominator of coordinates, distances and cosines.
Scale == 1000

\* Math.abs, Math.min, Math.max on numbers.
MathAbs(x) == IF x < 0 THEN -x ELSE x
MathMin(x, y) == IF x < y THEN x ELSE y
MathMax(x, y) == IF x > y THEN x ELSE y

\* n / d rounded to the nearest integer (d > 0): the rounding of one
\* floating-point division.
RDiv(n, d) == (2 * n + d) \div (2 * d)

RECURSIVE SqrtSearch(_, _, _)
\* Largest r in lo..hi with r*r <= n (lo*lo <= n).
SqrtSearch(n, lo, hi) ==
  IF lo >= hi THEN lo
  ELSE LET mid == (lo + hi + 1) \div 2
       IN IF mid * mid <= n THEN SqrtSearch(n, mid, hi)
          ELSE SqrtSearch(n, lo, mid - 1)

\* Math.sqrt of n >= 0, rounded to nearest; exact on perfect squares.
MathSqrt(n) ==
  LET r == SqrtSearch(n, 0, 46340)
  IN IF r < 46340 /\ (r + 1) * (r + 1) - n < n - r * r THEN r + 1 ELSE r

\* Denominator of the cosine table: Math.cos and Math.sin are read to
\* six decimals, so that one degree is told apart at a folded or
\* stretched position.
CosScale == 1000000

\* CosScale * cos(k degrees), k = 0..90, rounded.
CosTable == <<
  1000000, 999848, 999391, 998630, 997564, 996195, 994522,
  992546, 990268, 987688, 984808, 981627, 978148, 974370,
  970296, 965926, 961262, 956305, 951057, 945519, 939693,
  933580, 927184, 920505, 913545, 906308, 898794, 891007,
  882948, 874620, 866025, 857167, 848048, 838671, 829038,
  819152, 809017, 798636, 788011, 777146, 766044, 754710,
  743145, 731354, 719340, 707107, 694658, 681998, 669131,
  656059, 642788, 629320, 615661, 601815, 587785, 573576,
  559193, 544639, 529919, 515038, 500000, 484810, 469472,
  453990, 438371, 422618, 406737, 390731, 374607, 358368,
  342020, 325568, 309017, 292372, 275637, 258819, 241922,
  224951, 207912, 190809, 173648, 156434, 139173, 121869,
  104528, 87156, 69756, 52336, 34899, 17452, 0 >>

\* Math.cos(thetaInput * Math.PI / 180) for an integer number of degrees,
\* scaled by CosScale; the angle is not normalised by the caller.
MathCosDeg(deg) ==
  LET t == deg % 360
  IN IF t <= 90 THEN CosTable[t + 1]
     ELSE IF t <= 180 THEN -CosTable[180 - t + 1]
     ELSE IF t <= 270 THEN -CosTable[t - 180 + 1]
     ELSE CosTable[360 - t + 1]

\* Math.sin(thetaInput * Math.PI / 180), scaled by CosScale.
MathSinDeg(deg) == MathCosDeg(deg - 90)

\* The no-value marker of a coordinate.
NaN == -2147483647

\* The angle that is NaN.
NaNAngle == [c |-> NaN, s |-> NaN]

\* Math.acos(x): for x in [-Scale, Scale] the angle in [0, pi] whose
\* cosine is x, so its sine is the non-negative root; NaN outside.
MathAcos(x) ==
  IF x < -Scale \/ x > Scale THEN NaNAngle
  ELSE [c |-> x, s |-> MathSqrt(Scale * Scale - x * x)]

\* Math.atan2(y, x) for (x, y) # (0, 0): the direction of the vector.
MathAtan2(y, x) ==
  LET r == MathSqrt(x * x + y * y)
  IN [c |-> RDiv(x * Scale, r), s |-> RDiv(y * Scale, r)]

\* p - q on angles; NaN when either is.
AngleSub(p, q) ==
  IF p = NaNAngle \/ q = NaNAngle THEN NaNAngle
  ELSE [c |-> RDiv(p.c * q.c + p.s * q.s, Scale),
        s |-> RDiv(p.s * q.c - p.c * q.s, Scale)]

\* p + q on angles; NaN when either is.
AngleAdd(p, q) ==
  IF p = NaNAngle \/ q = NaNAngle THEN NaNAngle
  ELSE [c |-> RDiv(p.c * q.c - p.s * q.s, Scale),
        s |-> RDiv(p.s * q.c + p.c * q.s, Scale)]

\* The floating-point drift of the law-of-cosines quotient at tangency:
\* 0 when the quotient lands on +-1, 1 when it lands one step outside.
VARIABLE drift

\* ---------------------------------------------------------------------
\* PositionSolver: calculateJoints
\* ---------------------------------------------------------------------

\* Joint A is the origin.
jointA == [x |-> 0, y |-> 0]

\* Joint D placed on the Y axis.
jointDOnYAxis(d) == [x |-> 0, y |-> d * Scale]

\* Joint D is fixed on the X axis at distance d.
jointD(d) == [x |-> d * Scale, y |-> 0]

\* Joint B is determined by the input angle (degrees).
jointB(a, thetaInput) ==
  [x |-> RDiv(a * MathCosDeg(thetaInput), CosScale \div Scale),
   y |-> RDiv(a * MathSinDeg(thetaInput), CosScale \div Scale)]

\* Distance between B and D.
distanceBD(B, D) ==
  MathSqrt((D.x - B.x) * (D.x - B.x) + (D.y - B.y) * (D.y - B.y))

\* The assembly check with the tangent positions rejected.
assemblyInvalidStrict(distBD, b, c) ==
  \/ distBD >= (b + c) * Scale
  \/ distBD <= MathAbs(b - c) * Scale
  \/ distBD = 0

\* The assembly check without the upper limit.
assemblyInvalidNoUpper(distBD, b, c) ==
  \/ distBD < MathAbs(b - c) * Scale
  \/ distBD = 0

\* The assembly check: TRUE when no joint C exists (b, c in ticks,
\* distBD scaled).
assemblyInvalid(distBD, b, c) ==
  \/ distBD > (b + c) * Scale
  \/ distBD < MathAbs(b - c) * Scale
  \/ distBD = 0

\* The failed frame with C left at the origin.
invalidJointsZeroC(A, B, D) ==
  [Ax |-> A.x, Ay |-> A.y, Bx |-> B.x, By |-> B.y, Cx |-> 0, Cy |-> 0,
   Dx |-> D.x, Dy |-> D.y, isValid |-> FALSE]

\* The frame returned when the assembly check fails.
invalidJoints(A, B, D) ==
  [Ax |-> A.x, Ay |-> A.y, Bx |-> B.x, By |-> B.y, Cx |-> NaN, Cy |-> NaN,
   Dx |-> D.x, Dy |-> D.y, isValid |-> FALSE]

\* The law of cosines written for the angle at B (b and c exchanged).
lawOfCosinesAtB(distBD, b, c) ==
  RDiv(b * Scale * b * Scale + distBD * distBD - c * Scale * c * Scale,
       2 * b * distBD)

\* Law of cosines: cosine of the angle BDC, before clamping.
lawOfCosines(distBD, b, c) ==
  LET q == RDiv(c * Scale * c * Scale + distBD * distBD
                  - b * Scale * b * Scale,
                2 * c * distBD)
  IN IF q >= Scale THEN q + drift
     ELSE IF q <= -Scale THEN q - drift
     ELSE q

\* alpha without the clamp: Math.acos of the raw quotient.
alphaOfNoClamp(cosAlpha) == MathAcos(cosAlpha)

\* alpha: the clamped cosine through Math.acos.
alphaOf(cosAlpha) == MathAcos(MathMin(MathMax(cosAlpha, -Scale), Scale))

\* The other elbow branch: angleDB + alpha.
thetaOutputOfAdd(angleDB, alpha) == AngleAdd(angleDB, alpha)

\* The elbow branch: thetaOutput = angleDB - alpha.
thetaOutputOf(angleDB, alpha) == AngleSub(angleDB, alpha)

\* Joint C at distance c from D along thetaOutput.
jointC(D, c, thetaOutput) ==
  IF thetaOutput = NaNAngle THEN [x |-> NaN, y |-> NaN]
  ELSE [x |-> D.x + c * thetaOutput.c, y |-> D.y + c * thetaOutput.s]

calculateJoints(lengths, thetaInput) ==
  LET d == lengths.frame
      a == lengths.input
      b == lengths.coupler
      c == lengths.output
      A == jointA
      D == jointD(d)
      B == jointB(a, thetaInput)
      distBD == distanceBD(B, D)
  IN IF assemblyInvalid(distBD, b, c)
     THEN invalidJoints(A, B, D)
     ELSE LET cosAlpha == lawOfCosines(distBD, b, c)
              alpha == alphaOf(cosAlpha)
              angleDB == MathAtan2(B.y - D.y, B.x - D.x)
              thetaOutput == thetaOutputOf(angleDB, alpha)
              C == jointC(D, c, thetaOutput)
          IN [Ax |-> A.x, Ay |-> A.y, Bx |-> B.x, By |-> B.y,
              Cx |-> C.x, Cy |-> C.y, Dx |-> D.x, Dy |-> D.y,
              isValid |-> TRUE]

\* ---------------------------------------------------------------------
\* GrashofClassifier: determineGrashof
\* ---------------------------------------------------------------------

\* enum GrashofType
CRANK_ROCKER == "Crank-Rocker"
DOUBLE_CRANK == "Double-Crank (Drag-Link)"
DOUBLE_ROCKER_I == "Double-Rocker (Type I)"
DOUBLE_ROCKER_II == "Double-Rocker (Type II - Non-Grashof)"
CHANGE_POINT == "Change Point (Neutral)"
INVALID == "Invalid Geometry"

\* enum LinkRole
FRAME == "frame"
INPUT == "input"
COUPLER == "coupler"
OUTPUT == "output"

\* The role-tagged lengths, in the fixed order of the scan.
roleMap(lengths) ==
  << [role |-> FRAME, len |-> lengths.frame],
     [role |-> INPUT, len |-> lengths.input],
     [role |-> COUPLER, len |-> lengths.coupler],
     [role |-> OUTPUT, len |-> lengths.output] >>

RECURSIVE scanShortestLast(_, _, _)
\* The scan with <= in place of <: the last minimum wins.
scanShortestLast(map, i, cur) ==
  IF i > Len(map) THEN cur
  ELSE scanShortestLast(map, i + 1,
                        IF map[i].len <= cur.len THEN map[i] ELSE cur)

RECURSIVE scanShortest(_, _, _)
\* The for loop's shortest after items i..Len(map), starting from cur.
scanShortest(map, i, cur) ==
  IF i > Len(map) THEN cur
  ELSE scanShortest(map, i + 1, IF map[i].len < cur.len THEN map[i] ELSE cur)

RECURSIVE scanLongest(_, _, _)
\* The for loop's longest after items i..Len(map), starting from cur.
scanLongest(map, i, cur) ==
  IF i > Len(map) THEN cur
  ELSE scanLongest(map, i + 1, IF map[i].len > cur.len THEN map[i] ELSE cur)

RECURSIVE reduceSum(_, _, _)
\* map.reduce((acc, curr) => acc + curr.len, acc) over items i..Len(map).
reduceSum(map, i, acc) ==
  IF i > Len(map) THEN acc ELSE reduceSum(map, i + 1, acc + map[i].len)

\* The assembly check with the shortest link left out of the sum.
isInvalidGeometryNoS(S, L, PQ) == L > PQ

\* The assembly check of the classifier.
isInvalidGeometry(S, L, PQ) == L > S + PQ

\* A classifier without the tolerance: only S + L = P + Q exactly.
withinThresholdExact(S, L, PQ) == (S + L) - PQ = 0

\* Math.abs((S + L) - PQ) < threshold
withinThreshold(S, L, PQ) == MathAbs((S + L) - PQ) < threshold

\* Class I with the input link taken for the frame.
classOneTypeInputAsFrame(role) ==
  IF role = FRAME \/ role = INPUT THEN DOUBLE_CRANK
  ELSE IF role = OUTPUT THEN CRANK_ROCKER
  ELSE IF role = COUPLER THEN DOUBLE_ROCKER_I
  ELSE DOUBLE_ROCKER_II

\* Class I with the coupler taken for the frame.
classOneTypeCouplerAsFrame(role) ==
  IF role = COUPLER THEN DOUBLE_CRANK
  ELSE IF role = INPUT \/ role = OUTPUT THEN CRANK_ROCKER
  ELSE IF role = FRAME THEN DOUBLE_ROCKER_I
  ELSE DOUBLE_ROCKER_II

\* Class I with the coupler case left out, so that it falls through.
classOneTypeNoCoupler(role) ==
  IF role = FRAME THEN DOUBLE_CRANK
  ELSE IF role = INPUT \/ role = OUTPUT THEN CRANK_ROCKER
  ELSE DOUBLE_ROCKER_II

\* Grashof Class I: the category by the role of the shortest link; the
\* fall-through value when no role matches.
classOneType(role) ==
  IF role = FRAME THEN DOUBLE_CRANK
  ELSE IF role = INPUT \/ role = OUTPUT THEN CRANK_ROCKER
  ELSE IF role = COUPLER THEN DOUBLE_ROCKER_I
  ELSE DOUBLE_ROCKER_II

\* The classifier with the tolerance check made before the assembly
\* check.
determineGrashofToleranceFirst(lengths) ==
  LET map == roleMap(lengths)
      shortest == scanShortest(map, 1, map[1])
      longest == scanLongest(map, 1, map[1])
      S == shortest.len
      L == longest.len
      totalSum == reduceSum(map, 1, 0)
      PQ == totalSum - S - L
      type ==
        IF withinThreshold(S, L, PQ) THEN CHANGE_POINT
        ELSE IF isInvalidGeometry(S, L, PQ) THEN INVALID
        ELSE IF S + L < PQ THEN classOneType(shortest.role)
        ELSE DOUBLE_ROCKER_II
  IN [type |-> type, shortest |-> shortest.role, longest |-> longest.role]

determineGrashof(lengths) ==
  LET map == roleMap(lengths)
      shortest == scanShortest(map, 1, map[1])
      longest == scanLongest(map, 1, map[1])
      S == shortest.len
      L == longest.len
      totalSum == reduceSum(map, 1, 0)
      PQ == totalSum - S - L
      type ==
        IF isInvalidGeometry(S, L, PQ) THEN INVALID
        ELSE IF withinThreshold(S, L, PQ) THEN CHANGE_POINT
        ELSE IF S + L < PQ THEN classOneType(shortest.role)
        ELSE DOUBLE_ROCKER_II
  IN [type |-> type, shortest |-> shortest.role, longest |-> longest.role]

\* ---------------------------------------------------------------------
\* InfoPanel: the Grashof condition as the panel computes it
\* ---------------------------------------------------------------------

RECURSIVE insertAscending(_, _, _)
\* vals with x inserted after the items <= x among items i..Len(vals) of
\* an ascending vals.
insertAscending(vals, x, i) ==
  IF i > Len(vals) THEN Append(vals, x)
  ELSE IF x - vals[i] < 0
       THEN SubSeq(vals, 1, i - 1) \o <<x>> \o SubSeq(vals, i, Len(vals))
       ELSE insertAscending(vals, x, i + 1)

RECURSIVE sortAscending(_)
\* vals.sort((x, y) => x - y)
sortAscending(vals) ==
  IF vals = <<>> THEN <<>>
  ELSE insertAscending(sortAscending(SubSeq(vals, 1, Len(vals) - 1)),
                       vals[Len(vals)], 1)

\* The condition with < in place of <=.
isGrashofStrict(sumSL, sumPQ) == sumSL < sumPQ

\* const isGrashof = sumSL <= sumPQ
isGrashof(sumSL, sumPQ) == sumSL <= sumPQ

ConditionMet == "Condition Met"
ConditionFailed == "Condition Failed"

\* The values InfoPanel puts on the screen for its two props.
InfoPanel(info, ls) ==
  LET d == ls.frame
      a == ls.input
      b == ls.coupler
      c == ls.output
      vals == sortAscending(<<a, b, c, d>>)
      S == vals[1]
      L == vals[4]
      P == vals[2]
      Q == vals[3]
      sumSL == S + L
      sumPQ == P + Q
  IN [type |-> info.type,
      sumSL |-> sumSL,
      sumPQ |-> sumPQ,
      relation |-> IF sumSL < sumPQ THEN "<"
                   ELSE IF sumSL > sumPQ THEN ">" ELSE "=",
      condition |-> IF isGrashof(sumSL, sumPQ) THEN ConditionMet
                    ELSE ConditionFailed,
      shortest |-> [role |-> info.shortest, value |-> S],
      longest |-> [role |-> info.longest, value |-> L]]

\* ---------------------------------------------------------------------
\* The two functions applied to bounded inputs
\* ---------------------------------------------------------------------

VARIABLES lengths, thetaInput, joints, grashofInfo

\* The state of the App component: useState angle, isPlaying, speed; the
\* ref directionRef; and requestRef, read as 1 while a requested
\* animation frame is pending and 0 when none is (never requested, or
\* cancelled).
VARIABLES angle, isPlaying, speed, directionRef, requestRef

\* What the InfoPanel component shows, once it was rendered.
VARIABLE infoPanel

vars == <<lengths, thetaInput, joints, grashofInfo, drift,
          angle, isPlaying, speed, directionRef, requestRef, infoPanel>>

\* Link sets of positive lengths, in ticks.
LinkSets == [frame : 1 .. MaxLen, input : 1 .. MaxLen,
             coupler : 1 .. MaxLen, output : 1 .. MaxLen]

\* Input angles in degrees, not normalised: a grid over one turn and a
\* little beyond it on both sides.
ThetaInputs == {15 * k : k \in -2 .. 26}

\* joints and grashofInfo hold the result of the call once it was made:
\* the empty sequence before, the one returned value after.  The App is
\* not mounted here: its state stays as constructed.
Init ==
  /\ lengths \in LinkSets
  /\ thetaInput \in ThetaInputs
  /\ joints = <<>>
  /\ grashofInfo = <<>>
  /\ drift \in {0, 1}
  /\ angle = 90
  /\ isPlaying = FALSE
  /\ speed = 1
  /\ directionRef = 1
  /\ requestRef = 0
  /\ infoPanel = <<>>

\* solve(links, thetaDegrees)
Solve ==
  /\ joints = <<>>
  /\ joints' = <<calculateJoints(lengths, thetaInput)>>
  /\ UNCHANGED <<lengths, thetaInput, grashofInfo, drift>>
  /\ UNCHANGED <<angle, isPlaying, speed, directionRef, requestRef, infoPanel>>

\* classify(links)
Classify ==
  /\ grashofInfo = <<>>
  /\ grashofInfo' = <<determineGrashof(lengths)>>
  /\ UNCHANGED <<lengths, thetaInput, joints, drift>>
  /\ UNCHANGED <<angle, isPlaying, speed, directionRef, requestRef, infoPanel>>

Next == Solve \/ Classify

Spec == Init /\ [][Next]_vars

\* ---------------------------------------------------------------------
\* The classifier and the InfoPanel applied to integer lengths
\* ---------------------------------------------------------------------

\* Largest link length of the integer link sets, in length units.
MaxUnits == 5

\* Link sets of positive integer lengths, in ticks.
IntegerLinkSets ==
  LET Units == {k * 100 * threshold : k \in 1 .. MaxUnits}
  IN [frame : Units, input : Units, coupler : Units, output : Units]

InitPanel ==
  /\ lengths \in IntegerLinkSets
  /\ thetaInput = 90
  /\ joints = <<>>
  /\ grashofInfo = <<>>
  /\ drift \in {0, 1}
  /\ angle = 90
  /\ isPlaying = FALSE
  /\ speed = 1
  /\ directionRef = 1
  /\ requestRef = 0
  /\ infoPanel = <<>>

\* <InfoPanel grashofInfo={grashofInfo} lengths={lengths} />
RenderInfoPanel ==
  /\ grashofInfo # <<>>
  /\ infoPanel = <<>>
  /\ infoPanel' = <<InfoPanel(grashofInfo[1], lengths)>>
  /\ UNCHANGED <<lengths, thetaInput, joints, grashofInfo, drift>>
  /\ UNCHANGED <<angle, isPlaying, speed, directionRef, requestRef>>

NextPanel == Classify \/ RenderInfoPanel

SpecPanel == InitPanel /\ [][NextPanel]_vars

\* ---------------------------------------------------------------------
\* The App component: sliders, play button and the animation loop
\* ---------------------------------------------------------------------

\* The App's lengths are counted in slider steps of 20 length units: the
\* default set 200, 80, 180, 140 is 10, 4, 9, 7.  The solver is
\* homogeneous in the lengths and takes them as they are; the classifier
\* takes them in ticks.
TicksPerStep == 20 * 100 * threshold

SliderTicks(ls) ==
  [frame |-> ls.frame * TicksPerStep, input |-> ls.input * TicksPerStep,
   coupler |-> ls.coupler * TicksPerStep, output |-> ls.output * TicksPerStep]

\* useState<LinkLengths>({frame: 200, input: 80, coupler: 180, output: 140})
DefaultLengths == [frame |-> 10, input |-> 4, coupler |-> 9, output |-> 7]

\* The slider positions explored, per link: within the range of each
\* slider (input 20..200, coupler 20..300, output 20..200, frame 50..300).
SliderValues(key) ==
  CASE key = FRAME -> {5, 10}
    [] key = INPUT -> {4}
    [] key = COUPLER -> {9, 10}
    [] key = OUTPUT -> {1, 7}

\* The positions of the angle slider explored (0..360) and of the speed
\* slider (0.2..5).
AngleValues == {45 * k : k \in 0 .. 8}
SpeedValues == {1, 5}

\* The animation leaves the slider's range 0..360 by at most MaxSweep
\* degrees in the explored runs; the code sets no limit.
MaxSweep == 45

AngleRange == (0 - MaxSweep) .. (360 + MaxSweep)

\* One render of App: the derived state from lengths and angle.
render(ls, a) ==
  /\ thetaInput' = a
  /\ joints' = <<calculateJoints(ls, a)>>
  /\ grashofInfo' = <<determineGrashof(SliderTicks(ls))>>
  /\ infoPanel' =
       <<InfoPanel(determineGrashof(SliderTicks(ls)), SliderTicks(ls))>>

\* The updater that advances without looking at the result of the solver.
animateUpdaterNoCheck(ls, sp, direction, prevAngle) ==
  [angle |-> prevAngle + sp * direction, direction |-> direction]

\* The updater passed to setAngle by animate: the new angle and the new
\* value of directionRef.current.
animateUpdater(ls, sp, direction, prevAngle) ==
  LET step == sp * direction
      nextAngle == prevAngle + step
      nextJoints == calculateJoints(ls, nextAngle)
  IN IF nextJoints.isValid
     THEN [angle |-> nextAngle, direction |-> direction]
     ELSE [angle |-> prevAngle + sp * (direction * (-1)),
           direction |-> direction * (-1)]

InitApp ==
  /\ lengths = DefaultLengths
  /\ angle = 90
  /\ isPlaying = FALSE
  /\ speed = 1
  /\ directionRef = 1
  /\ requestRef = 0
  /\ drift \in {0, 1}
  /\ thetaInput = 90
  /\ joints = <<calculateJoints(DefaultLengths, 90)>>
  /\ grashofInfo = <<determineGrashof(SliderTicks(DefaultLengths))>>
  /\ infoPanel =
       <<InfoPanel(determineGrashof(SliderTicks(DefaultLengths)),
                   SliderTicks(DefaultLengths))>>

\* A length slider moved: setLengths; animate is made anew, so the
\* effect cancels the pending frame and, when playing, requests another.
handleLengthChange(key, value) ==
  /\ lengths' = [lengths EXCEPT ![key] = value]
  /\ requestRef' = IF isPlaying THEN 1 ELSE 0
  /\ render(lengths', angle)
  /\ UNCHANGED <<angle, isPlaying, speed, directionRef, drift>>

\* The angle slider's handler without the pause: setAngle only.
onAngleChangeNoPause(value) ==
  /\ angle' = value
  /\ render(lengths, value)
  /\ UNCHANGED <<lengths, isPlaying, speed, directionRef, requestRef, drift>>

\* The angle slider moved: pause when playing, then setAngle; the render
\* and the effect that cancels the pending frame are flushed within the
\* event (createRoot), before any frame callback can run.
onAngleChange(value) ==
  /\ isPlaying' = IF isPlaying THEN ~isPlaying ELSE isPlaying
  /\ angle' = value
  /\ requestRef' = 0
  /\ render(lengths, value)
  /\ UNCHANGED <<lengths, speed, directionRef, drift>>

\* The play button: setIsPlaying(!isPlaying); the effect requests a frame
\* when playing and cancels the pending one when not.
onTogglePlay ==
  /\ isPlaying' = ~isPlaying
  /\ requestRef' = IF isPlaying' THEN 1 ELSE 0
  /\ render(lengths, angle)
  /\ UNCHANGED <<lengths, angle, speed, directionRef, drift>>

\* The speed slider moved: setSpeed; animate is made anew as for a length.
onSpeedChange(value) ==
  /\ speed' = value
  /\ requestRef' = IF isPlaying THEN 1 ELSE 0
  /\ render(lengths, angle)
  /\ UNCHANGED <<lengths, angle, isPlaying, directionRef, drift>>

\* One animation frame: the pending callback runs, setAngle applies the
\* updater, the next frame is requested, App renders.
animate ==
  /\ requestRef = 1
  /\ LET u == animateUpdater(lengths, speed, directionRef, angle)
     IN /\ u.angle \in AngleRange
        /\ angle' = u.angle
        /\ directionRef' = u.direction
        /\ render(lengths, u.angle)
  /\ requestRef' = 1
  /\ UNCHANGED <<lengths, isPlaying, speed, drift>>

NextApp ==
  \/ \E key \in {FRAME, INPUT, COUPLER, OUTPUT} :
       \E value \in SliderValues(key) : handleLengthChange(key, value)
  \/ \E value \in AngleValues : onAngleChange(value)
  \/ onTogglePlay
  \/ \E value \in SpeedValues : onSpeedChange(value)
  \/ animate

SpecApp == InitApp /\ [][NextApp]_vars

\* ---------------------------------------------------------------------
\* Reference quantities of a link set, computed without the scan
\* ---------------------------------------------------------------------

Roles == <<FRAME, INPUT, COUPLER, OUTPUT>>

LenOf(ls, role) ==
  CASE role = FRAME -> ls.frame
    [] role = INPUT -> ls.input
    [] role = COUPLER -> ls.coupler
    [] role = OUTPUT -> ls.output

LenValues(ls) == {ls.frame, ls.input, ls.coupler, ls.output}

\* S and L: the least and the greatest of the four lengths.
ShortestLen(ls) == CHOOSE v \in LenValues(ls) : \A w \in LenValues(ls) : v <= w
LongestLen(ls) == CHOOSE v \in LenValues(ls) : \A w \in LenValues(ls) : v >= w

\* P + Q: the other two lengths.
OtherTwo(ls) ==
  ls.frame + ls.input + ls.coupler + ls.output - ShortestLen(ls) - LongestLen(ls)

\* (S + L) - (P + Q), in ticks.
GrashofGap(ls) == ShortestLen(ls) + LongestLen(ls) - OtherTwo(ls)

\* L > S + (P + Q): the longest link exceeds the other three together.
CannotAssemble(ls) == LongestLen(ls) > ShortestLen(ls) + OtherTwo(ls)

\* |(S + L) - (P + Q)| < 0.01 length units.
NearChangePoint(ls) ==
  /\ GrashofGap(ls) < threshold
  /\ -GrashofGap(ls) < threshold

\* The first role, in the order frame, input, coupler, output, whose
\* length is v.
FirstRoleWith(ls, v) ==
  Roles[CHOOSE i \in 1 .. 4 :
          /\ LenOf(ls, Roles[i]) = v
          /\ \A j \in 1 .. (i - 1) : LenOf(ls, Roles[j]) # v]

\* The category the Grashof sub-classification gives to a shortest role.
CategoryOfShortest(role) ==
  CASE role = FRAME -> DOUBLE_CRANK
    [] role = INPUT -> CRANK_ROCKER
    [] role = OUTPUT -> CRANK_ROCKER
    [] role = COUPLER -> DOUBLE_ROCKER_I

Classified == grashofInfo # <<>>
Solved == joints # <<>>

\* ---------------------------------------------------------------------
\* Claims about the classifier
\* ---------------------------------------------------------------------

\* C1: when classify returns neither Invalid nor Change Point and
\* S+L < P+Q, the category is the one of the role holding the shortest
\* length: frame Double-Crank, input or output Crank-Rocker, coupler
\* Double-Rocker (Type I).
C1_CategoryByShortestRole ==
  Classified =>
    LET g == grashofInfo[1]
    IN (g.type \notin {INVALID, CHANGE_POINT} /\ GrashofGap(lengths) < 0) =>
         \A i \in 1 .. 4 :
           LenOf(lengths, Roles[i]) = ShortestLen(lengths) =>
             g.type = CategoryOfShortest(Roles[i])

\* C1 witness: a Grashof set whose shortest link is the coupler was
\* classified Double-Rocker (Type I).
C1_Witness ==
  /\ Classified
  /\ GrashofGap(lengths) < 0
  /\ lengths.coupler = ShortestLen(lengths)
  /\ grashofInfo[1].type = DOUBLE_ROCKER_I

\* C2: classify returns Invalid exactly when L > S + (P+Q), whatever the
\* other checks would say.
C2_InvalidIffLongestTooLong ==
  Classified => (grashofInfo[1].type = INVALID <=> CannotAssemble(lengths))

\* C2 witness: frame 5, input 1, coupler 1, output 1 (the ratios of
\* 50, 10, 10, 10) was classified Invalid.
C2_Witness ==
  /\ Classified
  /\ lengths = [frame |-> 5, input |-> 1, coupler |-> 1, output |-> 1]
  /\ grashofInfo[1].type = INVALID

\* C3: a link set that is not Invalid and has |(S+L) - (P+Q)| < 0.01 is
\* Change Point, whichever role is shortest; four equal lengths are
\* Change Point.
C3_ChangePointWithinTolerance ==
  Classified =>
    /\ (~CannotAssemble(lengths) /\ NearChangePoint(lengths)) =>
         grashofInfo[1].type = CHANGE_POINT
    /\ Cardinality(LenValues(lengths)) = 1 => grashofInfo[1].type = CHANGE_POINT

\* C3 witness: a set within the tolerance but with S+L # P+Q, whose
\* shortest link is the coupler, was classified Change Point.
C3_Witness ==
  /\ Classified
  /\ GrashofGap(lengths) # 0
  /\ NearChangePoint(lengths)
  /\ lengths.coupler = ShortestLen(lengths)
  /\ Cardinality(LenValues(lengths)) = 4
  /\ grashofInfo[1].type = CHANGE_POINT

\* C4: classify returns Double-Rocker (Type II) exactly when the set is
\* not Invalid, not within the Change Point tolerance, and S+L > P+Q; so
\* never with S+L < P+Q.
C4_TypeTwoIffGrashofFails ==
  Classified =>
    (grashofInfo[1].type = DOUBLE_ROCKER_II
       <=> (/\ ~CannotAssemble(lengths)
            /\ ~NearChangePoint(lengths)
            /\ GrashofGap(lengths) > 0))

\* C4 witness: a set with S+L > P+Q that can be assembled was classified
\* Double-Rocker (Type II).
C4_Witness ==
  /\ Classified
  /\ GrashofGap(lengths) > 0
  /\ ~CannotAssemble(lengths)
  /\ grashofInfo[1].type = DOUBLE_ROCKER_II

\* C10: the reported shortest is the first role in the order frame,
\* input, coupler, output whose length is the minimum, the reported
\* longest the first whose length is the maximum; both are frame when
\* the four lengths are equal.
C10_FirstRoleWinsTies ==
  Classified =>
    /\ grashofInfo[1].shortest = FirstRoleWith(lengths, ShortestLen(lengths))
    /\ grashofInfo[1].longest = FirstRoleWith(lengths, LongestLen(lengths))
    /\ Cardinality(LenValues(lengths)) = 1 =>
         (grashofInfo[1].shortest = FRAME /\ grashofInfo[1].longest = FRAME)

\* C10 witness: the minimum is held by input and output, the maximum by
\* frame and coupler, and the reported roles are input and frame.
C10_Witness ==
  /\ Classified
  /\ lengths.input = lengths.output
  /\ lengths.frame = lengths.coupler
  /\ lengths.input < lengths.frame
  /\ grashofInfo[1].shortest = INPUT
  /\ grashofInfo[1].longest = FRAME

\* ---------------------------------------------------------------------
\* Claims about the position solver
\* ---------------------------------------------------------------------

PtA(j) == [x |-> j.Ax, y |-> j.Ay]
PtB(j) == [x |-> j.Bx, y |-> j.By]
PtC(j) == [x |-> j.Cx, y |-> j.Cy]
PtD(j) == [x |-> j.Dx, y |-> j.Dy]

\* Euclidean distance of two points (scaled).
Dist(P, Q) ==
  MathSqrt((P.x - Q.x) * (P.x - Q.x) + (P.y - Q.y) * (P.y - Q.y))

\* cross((B - D), (C - D))
Cross(j) == (j.Bx - j.Dx) * (j.Cy - j.Dy) - (j.By - j.Dy) * (j.Cx - j.Dx)

\* B = (input cos theta, input sin theta) and D = (frame, 0).
PointB(ls, deg) ==
  [x |-> RDiv(ls.input * MathCosDeg(deg), CosScale \div Scale),
   y |-> RDiv(ls.input * MathSinDeg(deg), CosScale \div Scale)]
PointD(ls) == [x |-> ls.frame * Scale, y |-> 0]

\* The distance a loop-closure check allows for rounding: 0.05 tick.
DistTol == Scale \div 20

\* C5: solve returns isValid = true iff |coupler - output| <= distBD <=
\* coupler + output and distBD > 0, distBD being the distance from
\* B = (input cos theta, input sin theta) to D = (frame, 0).
C5_ValidIffTriangleAndNonZero ==
  Solved =>
    LET distBD == Dist(PointB(lengths, thetaInput), PointD(lengths))
    IN joints[1].isValid <=>
         /\ MathAbs(lengths.coupler - lengths.output) * Scale <= distBD
         /\ distBD <= (lengths.coupler + lengths.output) * Scale
         /\ distBD > 0

\* C5 witness: input = frame at angle 0 puts B on D; with coupler =
\* output the triangle inequality holds and the result is invalid.
C5_Witness ==
  /\ Solved
  /\ lengths.input = lengths.frame
  /\ lengths.coupler = lengths.output
  /\ thetaInput = 0
  /\ Dist(PointB(lengths, thetaInput), PointD(lengths)) = 0
  /\ ~joints[1].isValid

\* C6: a valid result closes the loop: distance(A,B) = input,
\* distance(B,C) = coupler, distance(C,D) = output, up to rounding.
C6_LoopCloses ==
  (Solved /\ joints[1].isValid) =>
    LET j == joints[1]
    IN /\ MathAbs(Dist(PtA(j), PtB(j)) - lengths.input * Scale) <= DistTol
       /\ MathAbs(Dist(PtB(j), PtC(j)) - lengths.coupler * Scale) <= DistTol
       /\ MathAbs(Dist(PtC(j), PtD(j)) - lengths.output * Scale) <= DistTol

\* C6 witness: a valid result of four different lengths at an angle off
\* the baseline, with C off the line DB.
C6_Witness ==
  /\ Solved
  /\ joints[1].isValid
  /\ Cardinality(LenValues(lengths)) = 4
  /\ joints[1].By # 0
  /\ Cross(joints[1]) < -Scale * Scale

\* C7: every result, valid or not, has A = (0, 0) and D = (frame, 0).
C7_BaselineFixed ==
  Solved =>
    /\ joints[1].Ax = 0
    /\ joints[1].Ay = 0
    /\ joints[1].Dx = lengths.frame * Scale
    /\ joints[1].Dy = 0

\* C7 witness: an invalid result at an angle off the baseline with the
\* frame not the unit length.
C7_Witness ==
  /\ Solved
  /\ ~joints[1].isValid
  /\ joints[1].By # 0
  /\ lengths.frame > 1
  /\ joints[1].Dx = lengths.frame * Scale

\* C8: an invalid result is a value: isValid = false, Cx and Cy NaN,
\* A, B and D populated as usual; and C is NaN iff isValid is false.
C8_InvalidIsAValue ==
  Solved =>
    LET j == joints[1]
    IN /\ j.isValid \in BOOLEAN
       /\ ~j.isValid =>
            /\ j.Cx = NaN /\ j.Cy = NaN
            /\ PtA(j) = [x |-> 0, y |-> 0]
            /\ PtB(j) = PointB(lengths, thetaInput)
            /\ PtD(j) = PointD(lengths)
       /\ (j.Cx = NaN /\ j.Cy = NaN) <=> ~j.isValid
       /\ (j.Cx = NaN \/ j.Cy = NaN) <=> ~j.isValid
       /\ {j.Ax, j.Ay, j.Bx, j.By, j.Dx, j.Dy} \cap {NaN} = {}

\* C8 witness: an invalid result with C the marker and B off the axes.
C8_Witness ==
  /\ Solved
  /\ ~joints[1].isValid
  /\ joints[1].Cx = NaN
  /\ joints[1].Cy = NaN
  /\ joints[1].Bx # 0
  /\ joints[1].By # 0

\* C9: a valid C is never on the counter-clockwise side of the ray from
\* D through B: cross((B-D),(C-D)) <= 0, up to one unit of rounding in
\* the sine of the angle BDC.
C9_SameElbowBranch ==
  (Solved /\ joints[1].isValid) =>
    Cross(joints[1])
      <= Dist(PtB(joints[1]), PtD(joints[1])) * lengths.output

\* C9 witness: a valid result with C strictly on the clockwise side, at
\* an input angle in the lower half plane.
C9_Witness ==
  /\ Solved
  /\ joints[1].isValid
  /\ joints[1].By < 0
  /\ Cross(joints[1]) < -Scale * Scale

\* ---------------------------------------------------------------------
\* Claims relating the classifier and the solver
\* ---------------------------------------------------------------------

\* solve(ls, deg).isValid
IsValidAt(ls, deg) == calculateJoints(ls, deg).isValid

C13_InvalidNeverAssembles ==
  (Classified /\ Solved /\ grashofInfo[1].type = INVALID) =>
    ~joints[1].isValid

\* C13 witness: a set whose longest link is the coupler was classified
\* Invalid and solved, invalid, at an angle off the baseline.
C13_Witness ==
  /\ Classified
  /\ Solved
  /\ grashofInfo[1].type = INVALID
  /\ grashofInfo[1].longest = COUPLER
  /\ thetaInput = 90
  /\ ~joints[1].isValid

\* C14: a set classified Double-Crank has a valid result at every input
\* angle.
C14_DoubleCrankAlwaysAssembles ==
  (Classified /\ Solved /\ grashofInfo[1].type = DOUBLE_CRANK) =>
    joints[1].isValid

\* C14 witness: a Double-Crank set solved, valid, with the input link
\* folded back over the frame (180 degrees).
C14_Witness ==
  /\ Classified
  /\ Solved
  /\ grashofInfo[1].type = DOUBLE_CRANK
  /\ thetaInput = 180
  /\ joints[1].isValid

\* C15: a set classified Double-Rocker (Type II) has an invalid result at
\* input angle 0 or at input angle 180.
C15_TypeTwoInputCannotTurn ==
  (Classified /\ grashofInfo[1].type = DOUBLE_ROCKER_II) =>
    (~IsValidAt(lengths, 0) \/ ~IsValidAt(lengths, 180))

\* C15 witness: a Type II set solved at 0 degrees is invalid there
\* though it is valid at 180 degrees.
C15_Witness ==
  /\ Classified
  /\ Solved
  /\ grashofInfo[1].type = DOUBLE_ROCKER_II
  /\ thetaInput = 0
  /\ ~joints[1].isValid
  /\ IsValidAt(lengths, 180)

\* The step of a scan of the input angle, in degrees: the largest step
\* of the animation, and the smallest the fixed-point resolution tells
\* apart at a folded or stretched position.
ScanStep == 5

\* An invalid angle both of whose neighbours, one step away, are valid.
IsolatedInvalid(ls, deg) ==
  /\ ~IsValidAt(ls, deg)
  /\ IsValidAt(ls, deg - ScanStep)
  /\ IsValidAt(ls, deg + ScanStep)

\* The scanned angles from the solved angle up to the next one of the
\* grid of input angles.
ScanFrom(deg) == {deg + ScanStep * k : k \in 0 .. 2}

OuterTangency(ls, deg) ==
  Dist(PointB(ls, deg), PointD(ls)) = (ls.coupler + ls.output) * Scale

\* (B - D) . (C - D)
Dot(j) == (j.Bx - j.Dx) * (j.Cx - j.Dx) + (j.By - j.Dy) * (j.Cy - j.Dy)

\* C18: at distBD = coupler + output the result is valid with alpha = 0,
\* whatever the drift of the quotient, C is finite and lies on segment DB
\* at distance output from D; and no valid result has a NaN coordinate.
C18_TangencyClamped ==
  Solved =>
    LET j == joints[1]
    IN /\ OuterTangency(lengths, thetaInput) =>
            /\ j.isValid
            /\ alphaOf(lawOfCosines((lengths.coupler + lengths.output) * Scale,
                                    lengths.coupler, lengths.output))
                 = [c |-> Scale, s |-> 0]
            /\ j.Cx # NaN /\ j.Cy # NaN
            /\ MathAbs(Cross(j)) <= Dist(PtB(j), PtD(j)) * lengths.output
            /\ Dot(j) > 0
            /\ MathAbs(Dist(PtC(j), PtD(j)) - lengths.output * Scale) <= DistTol
            /\ MathAbs(Dist(PtB(j), PtC(j)) - lengths.coupler * Scale) <= DistTol
       /\ j.isValid =>
            {j.Ax, j.Ay, j.Bx, j.By, j.Cx, j.Cy, j.Dx, j.Dy} \cap {NaN} = {}

\* C18 witness: a tangent position off the baseline, with the quotient
\* drifting above 1, was solved valid with a finite C.
C18_Witness ==
  /\ Solved
  /\ OuterTangency(lengths, thetaInput)
  /\ drift = 1
  /\ lawOfCosines((lengths.coupler + lengths.output) * Scale,
                  lengths.coupler, lengths.output) > Scale
  /\ joints[1].By # 0
  /\ joints[1].isValid
  /\ joints[1].Cx # NaN

\* ---------------------------------------------------------------------
\* Claims about the App and its animation loop
\* ---------------------------------------------------------------------

\* The default link set in ticks: frame 200, input 80, coupler 180,
\* output 140.
DefaultInTicks ==
  [frame |-> 200 * 100 * threshold, input |-> 80 * 100 * threshold,
   coupler |-> 180 * 100 * threshold, output |-> 140 * 100 * threshold]

\* C11 as stated: for the default link set frame 200, input 80, coupler
\* 180, output 140 the classifier returns Crank-Rocker with shortest role
\* input (80) and longest role coupler (180).
C11_DefaultLongestCoupler ==
  lengths = DefaultLengths =>
    /\ SliderTicks(lengths) = DefaultInTicks
    /\ grashofInfo =
         << [type |-> CRANK_ROCKER, shortest |-> INPUT, longest |-> COUPLER] >>

\* C11 amended: for the default link set the classifier returns
\* Crank-Rocker with shortest role input (80) and longest role frame
\* (200).
C11_DefaultLongestFrame ==
  lengths = DefaultLengths =>
    /\ SliderTicks(lengths) = DefaultInTicks
    /\ grashofInfo =
         << [type |-> CRANK_ROCKER, shortest |-> INPUT, longest |-> FRAME] >>

\* C11 witness: the App shows the default link set while playing, off
\* the initial angle, classified Crank-Rocker with shortest role input
\* and longest role frame.
C11_Witness ==
  /\ lengths = DefaultLengths
  /\ grashofInfo[1].type = CRANK_ROCKER
  /\ grashofInfo[1].shortest = INPUT
  /\ grashofInfo[1].longest = FRAME
  /\ isPlaying
  /\ angle # 90

\* C16: while the animation is playing, each tick evaluates the solver at
\* angle + speed * direction; if that result is valid the angle becomes
\* that value and the direction is unchanged; if it is invalid the
\* direction sign is flipped (staying in {+1, -1}); either way the
\* animation is not halted and another frame is requested.  And whenever
\* the App is playing a frame is pending.
C16_TickAdvancesOrBounces ==
  [][ /\ isPlaying' => requestRef' = 1
      /\ animate =>
           LET next == angle + speed * directionRef
           IN /\ isPlaying
              /\ IF IsValidAt(lengths, next)
                 THEN angle' = next /\ directionRef' = directionRef
                 ELSE directionRef' = 0 - directionRef
              /\ directionRef' \in {1, -1}
              /\ isPlaying'
              /\ requestRef' = 1 ]_vars

\* C16 witness: the animation is playing, a frame is pending, and the
\* direction has been flipped by an invalid result.
C16_Witness ==
  /\ isPlaying
  /\ requestRef = 1
  /\ directionRef = -1
  /\ joints[1].isValid
  /\ Classified

\* C19: with lengths and speed as they are, a tick (advance or bounce)
\* from an angle at which the solver is valid ends at an angle at which
\* the solver is valid.
C19_TickKeepsAngleValid ==
  [][ (animate /\ joints[1].isValid) => joints'[1].isValid ]_vars

\* The link set has a valid angle, within one turn, on the grid of angles
\* a + k * sp.
HasValidOnGrid(ls, a, sp) ==
  \E t \in 0 .. 359 : (t - a) % sp = 0 /\ IsValidAt(ls, t)

\* The animation is playing at an angle at which the solver is invalid,
\* though the link set has a valid angle on the step grid.
PlayingInvalid ==
  /\ isPlaying
  /\ ~joints[1].isValid
  /\ HasValidOnGrid(lengths, angle, speed)

\* C20: while playing with lengths and speed unchanged, from any angle at
\* which the solver is invalid, if the link set has a valid angle on the
\* step grid then the angle eventually becomes one at which the solver
\* is valid rather than oscillating between invalid angles forever.  In
\* the form a finite run refutes: a tick from such an angle ends at a
\* valid angle, or at an angle from which the next tick does not bring
\* back the angle and the direction the first tick started from.
C20_ReachesValidAngle ==
  [][ (animate /\ PlayingInvalid) =>
        \/ joints'[1].isValid
        \/ LET u == animateUpdater(lengths', speed', directionRef', angle')
           IN ~(u.angle = angle /\ u.direction = directionRef) ]_vars

\* C21: when the angle slider is moved while the animation is playing,
\* the animation is paused and the angle is the slider value, with no
\* frame left pending; no tick runs while isPlaying is false, so while
\* paused the angle changes only by the slider.
C21_SliderPausesAnimation ==
  [][ /\ \A v \in AngleValues :
           (isPlaying /\ requestRef = 1 /\ onAngleChange(v)) =>
             (~isPlaying' /\ angle' = v /\ thetaInput' = v /\ requestRef' = 0)
      /\ animate => isPlaying
      /\ ~isPlaying' => requestRef' = 0
      /\ (~isPlaying /\ angle' # angle) =>
           (~isPlaying' /\ \E v \in AngleValues : onAngleChange(v)) ]_vars

\* C21 witness: the animation has run (the direction was flipped by a
\* bounce) and the App is paused at the slider's position 0, showing the
\* solver's result there, with no frame pending.
C21_Witness ==
  /\ ~isPlaying
  /\ requestRef = 0
  /\ directionRef = -1
  /\ angle = 0
  /\ thetaInput = 0
  /\ lengths = DefaultLengths

\* ---------------------------------------------------------------------
\* Claims about the InfoPanel
\* ---------------------------------------------------------------------

PanelRendered == infoPanel # <<>>

\* The classifier's S, L and P + Q: its scan and its total.
ClassifierS(ls) == scanShortest(roleMap(ls), 1, roleMap(ls)[1]).len
ClassifierL(ls) == scanLongest(roleMap(ls), 1, roleMap(ls)[1]).len
ClassifierPQ(ls) ==
  reduceSum(roleMap(ls), 1, 0) - ClassifierS(ls) - ClassifierL(ls)

\* C22: for every set of positive integer lengths the panel's S+L and
\* P+Q, taken from the sorted lengths, equal the classifier's S+L and
\* total-S-L; it shows 'Condition Met' exactly when the classifier
\* returns Double-Crank, Crank-Rocker, Double-Rocker (Type I) or Change
\* Point, and 'Condition Failed' exactly when it returns Double-Rocker
\* (Type II) or Invalid; and the S and L it prints are the lengths of the
\* roles the classifier reports as shortest and longest.
C22_PanelAgreesWithClassifier ==
  (PanelRendered /\ Classified) =>
    LET p == infoPanel[1]
        g == grashofInfo[1]
    IN /\ p.sumSL = ClassifierS(lengths) + ClassifierL(lengths)
       /\ p.sumPQ = ClassifierPQ(lengths)
       /\ p.condition \in {ConditionMet, ConditionFailed}
       /\ p.condition = ConditionMet <=>
            g.type \in {DOUBLE_CRANK, CRANK_ROCKER, DOUBLE_ROCKER_I, CHANGE_POINT}
       /\ p.condition = ConditionFailed <=>
            g.type \in {DOUBLE_ROCKER_II, INVALID}
       /\ p.type = g.type
       /\ p.shortest.role = g.shortest
       /\ p.longest.role = g.longest
       /\ p.shortest.value = LenOf(lengths, g.shortest)
       /\ p.longest.value = LenOf(lengths, g.longest)

\* C22 witness: a Change Point set of integer lengths, not all equal and
\* given out of order, was rendered with S + L = P + Q and 'Condition
\* Met'.
C22_Witness ==
  /\ PanelRendered
  /\ Classified
  /\ lengths \in IntegerLinkSets
  /\ lengths.input > lengths.coupler
  /\ lengths.coupler < lengths.output
  /\ lengths.frame > lengths.input
  /\ grashofInfo[1].type = CHANGE_POINT
  /\ infoPanel[1].relation = "="
  /\ infoPanel[1].condition = ConditionMet

====
